---- MODULE Spec2Model ----
(***************************************************************************)
(* camd (src/camd.py): the RunPod provider adapter, the TTL cache kept in  *)
(* ~/.camd/cache.json and the query entry point CheapAMD.get_all_gpus,     *)
(* with the commands of main() that hand its records to output.            *)
(*                                                                         *)
(* Time is counted in whole minutes.  Prices are in thousandths of a       *)
(* dollar (2.49 $/h is 2490).  The display-only 'features' list of a       *)
(* record is left out; every other field of a record is kept.              *)
(***************************************************************************)
EXTENDS Integers, Sequences, FiniteSets, TLC

(***************************************************************************)
(* Bounds of the model.                                                    *)
(***************************************************************************)
\* the clock runs over 0..MaxClock
MaxClock == 3

(***************************************************************************)
(* Program constants.                                                      *)
(***************************************************************************)
\* RunpodProvider.get_gpu_pricing: 'MI300X': 2.49
DefaultPrice == 2490
\* get_available_gpus_api: mi300x_gpu.get('memoryInGb', 192)
DefaultMemoryGb == 192
\* get_available_gpus_api: 'vcpus': 24 (* gpu_count)
VcpusPerGpu == 24
\* CheapAMD.__init__: self.cache_minutes = 5
DefaultCacheMinutes == 5
\* _make_graphql_query: if response.status_code == 200
HttpOk == 200

\* Python's None, and a key a dict does not hold
None == "<None>"
Absent == "<absent>"
\* get_available_gpus_api: the id the MI300X is looked up by
MI300X_ID == "AMD Instinct MI300X OAM"

(***************************************************************************)
(* AMDGPUInfo.GPUS: the model registry (its keys).                         *)
(***************************************************************************)
AMDGPUInfo_GPUS == {"MI300X"}

(***************************************************************************)
(* One GPU record (a dict of get_available_gpus_api or get_demo_gpus).     *)
(* api_source / demo_data / gpu_id are FALSE / FALSE / Absent where the    *)
(* dict does not hold the key (dict.get then yields None, which is falsy). *)
(***************************************************************************)
GpuRec(count, itype, price, perGpu, mem, reg, avail, stock, api, demo, gid) ==
    [ provider           |-> "RunPod",
      gpu_model          |-> "MI300X",
      gpu_count          |-> count,
      instance_type      |-> itype,
      vcpus              |-> VcpusPerGpu * count,
      memory             |-> mem,
      price_per_hour     |-> price,
      price_per_gpu_hour |-> perGpu,
      region             |-> reg,
      available          |-> avail,
      stock_status       |-> stock,
      api_source         |-> api,
      demo_data          |-> demo,
      gpu_id             |-> gid ]

(***************************************************************************)
(* gpus.sort(key=lambda x: x['price_per_gpu_hour']): list.sort is stable,  *)
(* records of equal price keep their order.                                *)
(***************************************************************************)
RECURSIVE InsertByPrice(_, _)
InsertByPrice(x, sorted) ==
    IF sorted = <<>> THEN <<x>>
    ELSE IF x.price_per_gpu_hour < Head(sorted).price_per_gpu_hour
    THEN <<x>> \o sorted
    ELSE <<Head(sorted)>> \o InsertByPrice(x, Tail(sorted))

RECURSIVE SortPrefix(_, _)
SortPrefix(gpus, n) ==
    IF n = 0 THEN <<>> ELSE InsertByPrice(gpus[n], SortPrefix(gpus, n - 1))

\* variant: a sort that is not stable, a record goes before those of its price
RECURSIVE InsertBeforeTies(_, _)
InsertBeforeTies(x, sorted) ==
    IF sorted = <<>> THEN <<x>>
    ELSE IF x.price_per_gpu_hour <= Head(sorted).price_per_gpu_hour
    THEN <<x>> \o sorted
    ELSE <<Head(sorted)>> \o InsertBeforeTies(x, Tail(sorted))

RECURSIVE SortPrefixBeforeTies(_, _)
SortPrefixBeforeTies(gpus, n) ==
    IF n = 0 THEN <<>>
    ELSE InsertBeforeTies(gpus[n], SortPrefixBeforeTies(gpus, n - 1))

sort_by_price_unstable(gpus) == SortPrefixBeforeTies(gpus, Len(gpus))

sort_by_price(gpus) == SortPrefix(gpus, Len(gpus))

(***************************************************************************)
(* RunpodProvider.is_configured: bool(self.api_key); the same test guards  *)
(* _make_graphql_query and get_available_gpus_api (if not self.api_key).   *)
(***************************************************************************)
\* variant: only None counts as no key
is_configured_not_none(api_key) == api_key # None

is_configured(api_key) == api_key \notin {None, ""}

(***************************************************************************)
(* The provider's answer to one POST.                                      *)
(*   kind   : "http" (a response came back), "timeout" (10 s passed),      *)
(*            "conn_error" (requests raised)                               *)
(*   status : the HTTP status                                              *)
(*   shape  : the shape of the body                                        *)
(*     not_json      : response.json() raises                              *)
(*     json_list     : a JSON list at top level                            *)
(*     errors        : an object with an "errors" member                   *)
(*     no_data       : an object with neither "errors" nor "data"          *)
(*     data_null     : {"data": null}                                      *)
(*     data_empty    : {"data": {}}                                        *)
(*     data_other    : {"data": {...}} without "gpuTypes"                  *)
(*     data_number   : {"data": 5}                                         *)
(*     gpuTypes_null : {"data": {"gpuTypes": null}}                        *)
(*     gpuTypes_list : {"data": {"gpuTypes": [...]}}                       *)
(*   gpuTypes : the entries of the list (gpuTypes_list only)               *)
(* An entry: dict = FALSE for a list element that is no object; id and     *)
(* displayName are strings, Absent, or None (JSON null); memoryInGb is     *)
(* [k |-> "num", n |-> ..], [k |-> "null"] or [k |-> "absent"].            *)
(***************************************************************************)
Mem(k, n) == [n |-> n, k |-> k]

Entry(isDict, id, displayName, mem) ==
    [id |-> id, displayName |-> displayName, dict |-> isDict, memoryInGb |-> mem]

E_MI300X == Entry(TRUE, MI300X_ID, "MI300X", Mem("num", 192))
E_ByName == Entry(TRUE, "MI300X-256", "AMD MI300X 256GB", Mem("num", 256))
E_Bare   == Entry(TRUE, MI300X_ID, Absent, Mem("absent", 0))
E_NoId   == Entry(TRUE, Absent, "MI300X", Mem("num", 192))
E_NullMem == Entry(TRUE, MI300X_ID, "MI300X", Mem("null", 0))
E_H100   == Entry(TRUE, "NVIDIA H100", "H100 PCIe", Mem("num", 80))
E_NullName == Entry(TRUE, "NVIDIA A100", None, Mem("num", 80))
E_NoDict == Entry(FALSE, Absent, Absent, Mem("absent", 0))

\* the gpuTypes lists the provider is taken to answer with
GpuTypesLists ==
    { <<>>,
      <<E_MI300X>>, <<E_ByName>>, <<E_Bare>>, <<E_NoId>>, <<E_NullMem>>,
      <<E_H100>>, <<E_NullName>>, <<E_NoDict>>,
      <<E_H100, E_MI300X>>, <<E_MI300X, E_NoDict>>, <<E_NullName, E_MI300X>>,
      <<E_MI300X, E_ByName>>, <<E_ByName, E_MI300X>>,
      <<E_H100, E_NoDict, E_MI300X>> }

\* 'MI300X' in name, for the display names of the model
ContainsMI300X(name) == name \in {"MI300X", "AMD MI300X 256GB"}

Response(kind, status, shape, gpuTypes) ==
    [kind |-> kind, status |-> status, shape |-> shape, gpuTypes |-> gpuTypes]

BodyShapes ==
    { "not_json", "json_list", "errors", "no_data", "data_null", "data_empty",
      "data_other", "data_number", "gpuTypes_null" }

Responses ==
    { Response("timeout", 0, "not_json", <<>>),
      Response("conn_error", 0, "not_json", <<>>),
      Response("http", 401, "errors", <<>>),
      Response("http", 500, "not_json", <<>>) }
    \cup { Response("http", HttpOk, s, <<>>) : s \in BodyShapes }
    \cup { Response("http", HttpOk, "gpuTypes_list", g) :
              g \in GpuTypesLists }

(***************************************************************************)
(* RunpodProvider._make_graphql_query.                                     *)
(* Yields [net, data]: net counts the POSTs issued; data is "None" for a   *)
(* None return, "falsy" for an empty dict, "no_gpuTypes" for a dict        *)
(* without the key, and otherwise names what data holds.  Every exception  *)
(* of the request and of the parse is caught inside the try.               *)
(***************************************************************************)
QueryResult(net, data) == [net |-> net, data |-> data]

\* variant: only a server error counts as a failed request
status_ok_below_500(status) == status < 500

\* if response.status_code == 200
status_ok(status) == status = HttpOk

make_graphql_query(api_key, resp) ==
    IF ~is_configured(api_key) THEN QueryResult(0, "None")
    ELSE IF resp.kind # "http" THEN QueryResult(1, "None")
    ELSE IF ~status_ok(resp.status) THEN QueryResult(1, "None")
    ELSE CASE resp.shape = "not_json"      -> QueryResult(1, "None")
           [] resp.shape = "json_list"     -> QueryResult(1, "None")
           [] resp.shape = "errors"        -> QueryResult(1, "None")
           [] resp.shape = "no_data"       -> QueryResult(1, "None")
           [] resp.shape = "data_null"     -> QueryResult(1, "None")
           [] resp.shape = "data_empty"    -> QueryResult(1, "falsy")
           [] resp.shape = "data_other"    -> QueryResult(1, "no_gpuTypes")
           [] resp.shape = "data_number"   -> QueryResult(1, "number")
           [] resp.shape = "gpuTypes_null" -> QueryResult(1, "gpuTypes_null")
           [] resp.shape = "gpuTypes_list" -> QueryResult(1, "gpuTypes_list")

(***************************************************************************)
(* The loop of get_available_gpus_api that looks for the MI300X: the first *)
(* entry whose id is MI300X_ID or whose displayName contains 'MI300X'.     *)
(* An entry that is no dict has no .get (AttributeError); a displayName of *)
(* null makes 'MI300X' in None raise TypeError.  Neither is caught.        *)
(***************************************************************************)
RECURSIVE FindMI300X(_, _)
FindMI300X(gpuTypes, i) ==
    IF i > Len(gpuTypes) THEN [status |-> "not_found", at |-> 0]
    ELSE LET e == gpuTypes[i] IN
         IF ~e.dict THEN [status |-> "raised", at |-> i]
         ELSE IF e.id = MI300X_ID THEN [status |-> "found", at |-> i]
         ELSE IF e.displayName = None THEN [status |-> "raised", at |-> i]
         ELSE IF e.displayName # Absent /\ ContainsMI300X(e.displayName)
              THEN [status |-> "found", at |-> i]
         ELSE FindMI300X(gpuTypes, i + 1)

(***************************************************************************)
(* The records get_available_gpus_api builds from the MI300X entry:        *)
(* single GPU, spot, then 2x, 4x and 8x.                                   *)
(***************************************************************************)
MultiGpuCounts == <<2, 4, 8>>

InstanceType(count) ==
    CASE count = 1 -> "MI300X-1x"
      [] count = 2 -> "MI300X-2x"
      [] count = 4 -> "MI300X-4x"
      [] count = 8 -> "MI300X-8x"

\* variant: the multi-GPU records repeat the memory of one unit
ApiRecords_unit_memory(memory_gb, gpu_id) ==
    << GpuRec(1, "MI300X-1x", DefaultPrice, DefaultPrice, memory_gb,
              "Global", TRUE, "check_availability", TRUE, FALSE, gpu_id),
       GpuRec(1, "MI300X-spot", DefaultPrice \div 2, DefaultPrice \div 2, memory_gb,
              "Global (Spot)", TRUE, "check_availability", TRUE, FALSE, gpu_id) >>
    \o [ k \in 1..Len(MultiGpuCounts) |->
           LET gpu_count == MultiGpuCounts[k] IN
           GpuRec(gpu_count, InstanceType(gpu_count), DefaultPrice * gpu_count,
                  DefaultPrice, memory_gb,
                  "Global", TRUE, "check_availability", TRUE, FALSE, gpu_id) ]

ApiRecords(memory_gb, gpu_id) ==
    << GpuRec(1, "MI300X-1x", DefaultPrice, DefaultPrice, memory_gb,
              "Global", TRUE, "check_availability", TRUE, FALSE, gpu_id),
       GpuRec(1, "MI300X-spot", DefaultPrice \div 2, DefaultPrice \div 2, memory_gb,
              "Global (Spot)", TRUE, "check_availability", TRUE, FALSE, gpu_id) >>
    \o [ k \in 1..Len(MultiGpuCounts) |->
           LET gpu_count == MultiGpuCounts[k] IN
           GpuRec(gpu_count, InstanceType(gpu_count), DefaultPrice * gpu_count,
                  DefaultPrice, memory_gb * gpu_count,
                  "Global", TRUE, "check_availability", TRUE, FALSE, gpu_id) ]

(***************************************************************************)
(* RunpodProvider.get_available_gpus_api.                                  *)
(* Yields [raised, net, gpus]; raised = TRUE when an exception leaves the  *)
(* method (nothing in it is caught outside _make_graphql_query).           *)
(***************************************************************************)
ApiResult(raised, net, gpus) == [gpus |-> gpus, net |-> net, raised |-> raised]

get_available_gpus_api(api_key, resp) ==
    IF ~is_configured(api_key) THEN ApiResult(FALSE, 0, <<>>)
    ELSE LET q == make_graphql_query(api_key, resp) IN
         CASE q.data \in {"None", "falsy", "no_gpuTypes"} -> ApiResult(FALSE, q.net, <<>>)
           \* 'gpuTypes' not in 5: TypeError
           [] q.data = "number" -> ApiResult(TRUE, q.net, <<>>)
           \* for gpu_type in None: TypeError
           [] q.data = "gpuTypes_null" -> ApiResult(TRUE, q.net, <<>>)
           [] q.data = "gpuTypes_list" ->
                LET f == FindMI300X(resp.gpuTypes, 1) IN
                CASE f.status = "raised" -> ApiResult(TRUE, q.net, <<>>)
                  [] f.status = "not_found" -> ApiResult(FALSE, q.net, <<>>)
                  [] f.status = "found" ->
                       LET e == resp.gpuTypes[f.at]
                           gpu_id == IF e.id = Absent THEN MI300X_ID ELSE e.id
                       IN  CASE e.memoryInGb.k = "absent" ->
                                  ApiResult(FALSE, q.net, ApiRecords(DefaultMemoryGb, gpu_id))
                             \* None * gpu_count: TypeError
                             [] e.memoryInGb.k = "null" -> ApiResult(TRUE, q.net, <<>>)
                             [] e.memoryInGb.k = "num" ->
                                  ApiResult(FALSE, q.net, ApiRecords(e.memoryInGb.n, gpu_id))

(***************************************************************************)
(* RunpodProvider.get_demo_gpus: the fixed demo records.                   *)
(***************************************************************************)
\* variant: the 2x demo record quotes its total price per GPU hour too
get_demo_gpus_total_per_gpu ==
    << GpuRec(1, "MI300X-1x", 2490, 2490, 192, "Global", FALSE, "unavailable",
              FALSE, TRUE, Absent),
       GpuRec(1, "MI300X-spot", 1250, 1250, 192, "Global (Spot)", TRUE, "low",
              FALSE, TRUE, Absent),
       GpuRec(2, "MI300X-2x", 4980, 4980, 384, "Global", FALSE, "unavailable",
              FALSE, TRUE, Absent) >>

get_demo_gpus ==
    << GpuRec(1, "MI300X-1x", 2490, 2490, 192, "Global", FALSE, "unavailable",
              FALSE, TRUE, Absent),
       GpuRec(1, "MI300X-spot", 1250, 1250, 192, "Global (Spot)", TRUE, "low",
              FALSE, TRUE, Absent),
       GpuRec(2, "MI300X-2x", 4980, 2490, 384, "Global", FALSE, "unavailable",
              FALSE, TRUE, Absent),
       GpuRec(4, "MI300X-4x", 9960, 2490, 768, "Global", FALSE, "unavailable",
              FALSE, TRUE, Absent),
       GpuRec(8, "MI300X-8x", 19920, 2490, 1536, "Global", FALSE, "unavailable",
              FALSE, TRUE, Absent) >>

(***************************************************************************)
(* The cache file ~/.camd/cache.json.                                      *)
(* Its content is the token sequence json.dump writes for                  *)
(* {'timestamp': <isoformat>, 'gpus': [...]}:                              *)
(*     "{"  "timestamp"(ts)  "gpus"  "rec"(r1) ... "rec"(rn)  "}"          *)
(* A timestamp string is [iso, t]: iso says whether fromisoformat accepts  *)
(* it, t is the instant it denotes.                                        *)
(***************************************************************************)
NoRec == GpuRec(0, "", 0, 0, 0, "", FALSE, "", FALSE, FALSE, Absent)
NoTs == [iso |-> FALSE, t |-> 0]

Token(tok, ts, rec) == [tok |-> tok, ts |-> ts, rec |-> rec]
T_Open == Token("{", NoTs, NoRec)
T_Close == Token("}", NoTs, NoRec)
T_Gpus == Token("gpus", NoTs, NoRec)
T_Timestamp(ts) == Token("timestamp", ts, NoRec)
T_Rec(r) == Token("rec", NoTs, r)

\* datetime.isoformat
isoformat(t) == [iso |-> TRUE, t |-> t]

\* variant: any string is taken for a timestamp
fromisoformat_lenient(ts) == [t |-> ts.t, ok |-> TRUE]

\* datetime.fromisoformat: ok = FALSE when it raises ValueError
fromisoformat(ts) == [t |-> ts.t, ok |-> ts.iso]

\* variant: the records are written in price order
json_dump_sorted(ts, gpus) ==
    <<T_Open, T_Timestamp(ts), T_Gpus>>
    \o [i \in 1..Len(gpus) |-> T_Rec(sort_by_price(gpus)[i])]
    \o <<T_Close>>

\* json.dump(cache_data, f) for cache_data = {'timestamp': ts, 'gpus': gpus}
json_dump(ts, gpus) ==
    <<T_Open, T_Timestamp(ts), T_Gpus>>
    \o [i \in 1..Len(gpus) |-> T_Rec(gpus[i])]
    \o <<T_Close>>

(***************************************************************************)
(* json.load(f): ok = FALSE when the content is no JSON document (load     *)
(* raises); otherwise the members the object holds.                        *)
(***************************************************************************)
json_load(content) ==
    LET n == Len(content)
        bad == [gpus |-> <<>>, timestamp |-> NoTs, ok |-> FALSE,
                has_timestamp |-> FALSE, has_gpus |-> FALSE]
    IN  IF n < 2 THEN bad
        ELSE IF content[1].tok # "{" \/ content[n].tok # "}" THEN bad
        ELSE LET body == SubSeq(content, 2, n - 1)
                 has_ts == body # <<>> /\ body[1].tok = "timestamp"
                 rest == IF has_ts THEN Tail(body) ELSE body
                 has_gpus == rest # <<>> /\ rest[1].tok = "gpus"
                 recs == IF has_gpus THEN Tail(rest) ELSE rest
             IN  IF (has_gpus /\ \A i \in 1..Len(recs) : recs[i].tok = "rec")
                    \/ (~has_gpus /\ recs = <<>>)
                 THEN [gpus |-> IF has_gpus
                                THEN [i \in 1..Len(recs) |-> recs[i].rec]
                                ELSE <<>>,
                       timestamp |-> IF has_ts THEN body[1].ts ELSE NoTs,
                       ok |-> TRUE,
                       has_timestamp |-> has_ts,
                       has_gpus |-> has_gpus]
                 ELSE bad

\* variant: the TTL is taken in seconds
is_fresh_seconds(clock, cache_time, minutes) == (clock - cache_time) * 60 < minutes

\* variant: an entry as old as the TTL still counts as fresh
is_fresh_le(clock, cache_time, minutes) == clock - cache_time <= minutes

\* variant: a timestamp ahead of the clock is put down to clock skew and the
\* entry is taken for stale
is_fresh_skew_corrected(clock, cache_time, minutes) ==
    cache_time <= clock /\ clock - cache_time < minutes

\* datetime.now() - cache_time < timedelta(minutes=self.cache_minutes)
is_fresh(clock, cache_time, minutes) == clock - cache_time < minutes

(***************************************************************************)
(* The cache check of get_all_gpus (the try block after                    *)
(* self.cache_file.exists()): hit = TRUE when it returns cache_data['gpus'],*)
(* FALSE when the file is stale or anything in the block raised (the bare  *)
(* except passes).                                                         *)
(***************************************************************************)
CacheMiss == [gpus |-> <<>>, hit |-> FALSE]

read_cache(file, clock, minutes) ==
    IF ~file.exists THEN CacheMiss
    \* open(self.cache_file, 'r') raises
    ELSE IF ~file.readable THEN CacheMiss
    ELSE LET cache_data == json_load(file.content) IN
         IF ~cache_data.ok THEN CacheMiss
         \* cache_data['timestamp']: KeyError
         ELSE IF ~cache_data.has_timestamp THEN CacheMiss
         ELSE LET cache_time == fromisoformat(cache_data.timestamp) IN
              IF ~cache_time.ok THEN CacheMiss
              ELSE IF ~is_fresh(clock, cache_time.t, minutes) THEN CacheMiss
              \* cache_data['gpus']: KeyError
              ELSE IF ~cache_data.has_gpus THEN CacheMiss
              ELSE [gpus |-> cache_data.gpus, hit |-> TRUE]

\* variant: only the first record reaches the file
write_cache_first_record(clock, all_gpus) ==
    [content |-> json_dump(isoformat(clock), SubSeq(all_gpus, 1, 1)), exists |-> TRUE,
     readable |-> TRUE]

\* with open(self.cache_file, 'w') as f: json.dump(cache_data, f)
write_cache(clock, all_gpus) ==
    [content |-> json_dump(isoformat(clock), all_gpus), exists |-> TRUE,
     readable |-> TRUE]

\* variant: every fetch is cached
should_cache_always(all_gpus) == TRUE

\* if all_gpus: (a non-empty list is truthy)
should_cache(all_gpus) == all_gpus # <<>>

NoFile == [content |-> <<>>, exists |-> FALSE, readable |-> FALSE]

(***************************************************************************)
(* self.provider: set = FALSE for None.                                    *)
(***************************************************************************)
NoProvider == [api_key |-> None, set |-> FALSE]
RunpodProvider(api_key) == [api_key |-> api_key, set |-> TRUE]

(***************************************************************************)
(* CheapAMD.get_all_gpus(use_cache, demo_mode), as one call.               *)
(*   raised   : an exception left the method                               *)
(*   gpus     : the list returned                                          *)
(*   net      : POSTs issued to the provider                               *)
(*   hit      : answered from the cache file                               *)
(*   fetch    : "none" (no fetch), "empty", "records", "raised"            *)
(*   wrote    : the cache file was written                                 *)
(*   provider, file : self.provider and the cache file after the call      *)
(* wr says whether open(cache_file, 'w') succeeds.                         *)
(***************************************************************************)
Outcome(raised, gpus, net, hit, fetch, wrote, prov, file) ==
    [provider |-> prov, gpus |-> gpus, net |-> net, raised |-> raised,
     hit |-> hit, file |-> file, fetch |-> fetch, wrote |-> wrote]

\* variant: demo data is served only once a provider exists
takes_demo_path_with_provider(prov, demo) == demo /\ prov.set

\* if demo_mode: (tested before self.provider is looked at)
takes_demo_path(prov, demo) == demo

\* variant: the demo records go on to the cache write of the API path
demo_path_cached(prov, file, wr, clock) ==
    Outcome(FALSE, get_demo_gpus, 0, FALSE, "none", wr,
            IF prov.set THEN prov ELSE RunpodProvider(None),
            IF wr THEN write_cache(clock, get_demo_gpus) ELSE file)

\* the demo branch: a provider without a key is created when there is none,
\* and its demo records are returned; the cache file is not touched
demo_path(prov, file, wr, clock) ==
    Outcome(FALSE, get_demo_gpus, 0, FALSE, "none", FALSE,
            IF prov.set THEN prov ELSE RunpodProvider(None), file)

get_all_gpus(prov, minutes, file, wr, clock, use_cache, demo_mode, resp) ==
    IF takes_demo_path(prov, demo_mode)
    THEN demo_path(prov, file, wr, clock)
    ELSE IF ~prov.set \/ ~is_configured(prov.api_key)
    THEN Outcome(FALSE, <<>>, 0, FALSE, "none", FALSE, prov, file)
    ELSE LET c == IF use_cache THEN read_cache(file, clock, minutes) ELSE CacheMiss IN
         IF c.hit
         THEN Outcome(FALSE, c.gpus, 0, TRUE, "none", FALSE, prov, file)
         ELSE LET api == get_available_gpus_api(prov.api_key, resp)
                  fetch == IF api.gpus = <<>> THEN "empty" ELSE "records"
              IN
              IF api.raised
              THEN Outcome(TRUE, <<>>, api.net, FALSE, "raised", FALSE, prov, file)
              ELSE IF should_cache(api.gpus)
              THEN IF wr
                   THEN Outcome(FALSE, api.gpus, api.net, FALSE, fetch, TRUE,
                                prov, write_cache(clock, api.gpus))
                   \* open(self.cache_file, 'w'): PermissionError
                   ELSE Outcome(TRUE, <<>>, api.net, FALSE, fetch, FALSE, prov, file)
              ELSE Outcome(FALSE, api.gpus, api.net, FALSE, fetch, FALSE, prov, file)

(***************************************************************************)
(* CheapAMD.load_config.  env is what the process sees once the .env file  *)
(* is read: exists (the .env file is there), api_key                       *)
(* (os.getenv('RUNPOD_API_KEY')), minutes (CAMD_CACHE_MINUTES, Absent when *)
(* unset).  int() of a string that is no integer raises ValueError, which  *)
(* the except turns into a False return after self.provider was set.       *)
(* loads is FALSE when reading the file raises (open() is refused, a line  *)
(* '=x' makes os.environ[''] = 'x' raise): the same except returns False   *)
(* before self.provider is touched.                                        *)
(***************************************************************************)
Env(exists, api_key, minutes) ==
    [api_key |-> api_key, minutes |-> minutes, exists |-> exists, loads |-> TRUE]

\* a .env file that is there and whose reading raises
EnvBroken(api_key, minutes) ==
    [api_key |-> api_key, minutes |-> minutes, exists |-> TRUE, loads |-> FALSE]

ApiKeys == {None, "", "rp_key"}
MinuteStrings == {Absent, "0", "1", "abc"}

\* without a .env file the key may still be exported in the shell
Envs ==
    { Env(FALSE, None, Absent), Env(FALSE, "rp_key", Absent),
      EnvBroken("rp_key", Absent) }
    \cup { Env(TRUE, k, m) : k \in ApiKeys, m \in MinuteStrings }

\* variant: a value that is no integer falls back to the default
ParseInt_default_on_error(str) ==
    CASE str = "0" -> [n |-> 0, ok |-> TRUE]
      [] str = "1" -> [n |-> 1, ok |-> TRUE]
      [] OTHER -> [n |-> DefaultCacheMinutes, ok |-> TRUE]

\* int(os.getenv('CAMD_CACHE_MINUTES', '5'))
ParseInt(str) ==
    CASE str = Absent -> [n |-> DefaultCacheMinutes, ok |-> TRUE]
      [] str = "0" -> [n |-> 0, ok |-> TRUE]
      [] str = "1" -> [n |-> 1, ok |-> TRUE]
      [] OTHER -> [n |-> 0, ok |-> FALSE]

load_config(prov, minutes, env) ==
    IF ~env.exists
    THEN [provider |-> prov, ok |-> FALSE, cache_minutes |-> minutes]
    ELSE IF ~env.loads
    THEN [provider |-> prov, ok |-> FALSE, cache_minutes |-> minutes]
    ELSE LET parsed == ParseInt(env.minutes) IN
         IF ~parsed.ok
         THEN [provider |-> RunpodProvider(env.api_key), ok |-> FALSE,
               cache_minutes |-> minutes]
         ELSE [provider |-> RunpodProvider(env.api_key),
               ok |-> is_configured(env.api_key),
               cache_minutes |-> parsed.n]

(***************************************************************************)
(* State.                                                                  *)
(*   provider, cache_minutes : the fields of the CheapAMD object           *)
(*   cacheFile : ~/.camd/cache.json                                        *)
(*   writable  : whether the cache file can be opened for writing          *)
(*   now       : the clock, in minutes                                     *)
(*   ret       : what the last call returned (or that it raised)           *)
(*   netCalls  : the POSTs the last call issued                            *)
(*   last      : the last operation and what it did                        *)
(*   call      : the arguments of the last direct call of a provider method *)
(*   pc, loc   : the position and locals of each concurrent invocation     *)
(*   cheapest  : the record the last command chose as cheapest (a sequence *)
(*               of one record, empty when it chose none)                  *)
(***************************************************************************)
VARIABLES provider, cache_minutes, cacheFile, writable, now, ret, netCalls, last,
          call, pc, loc, cheapest

vars == <<provider, cache_minutes, cacheFile, writable, now, ret, netCalls, last,
          call, pc, loc, cheapest>>

Procs == {1, 2}

Ret(raised, gpus) == [gpus |-> gpus, raised |-> raised]

Last(op, use_cache, demo_mode, hit, fetch, wrote, ok) ==
    [ok |-> ok, hit |-> hit, fetch |-> fetch, wrote |-> wrote,
     use_cache |-> use_cache, demo_mode |-> demo_mode, op |-> op]

\* the locals of a running invocation: what its cache check saw in the file
\* ("none" before the check), and the cache_data it is about to write
Loc(observed, ts, gpus) == [gpus |-> gpus, ts |-> ts, observed |-> observed]
NoLoc == Loc("none", 0, <<>>)

Call(api_key, resp) == [api_key |-> api_key, resp |-> resp]
NoCall == Call(None, Response("timeout", 0, "not_json", <<>>))

\* the records of an earlier run that an existing cache file holds
R0 == ApiRecords(DefaultMemoryGb, MI300X_ID)

ValidFile(t) == write_cache(t, R0)

\* cache files that are no cache entry: empty, cut short, no 'timestamp',
\* no 'gpus', a timestamp fromisoformat rejects, a file that cannot be read
MalformedFiles ==
    { [content |-> <<>>, exists |-> TRUE, readable |-> TRUE],
      [content |-> <<T_Open, T_Timestamp(isoformat(0))>>, exists |-> TRUE,
       readable |-> TRUE],
      [content |-> <<T_Open, T_Gpus, T_Rec(R0[1]), T_Close>>, exists |-> TRUE,
       readable |-> TRUE],
      [content |-> <<T_Open, T_Timestamp(isoformat(0)), T_Close>>, exists |-> TRUE,
       readable |-> TRUE],
      [content |-> json_dump([iso |-> FALSE, t |-> 0], R0), exists |-> TRUE,
       readable |-> TRUE],
      [content |-> ValidFile(0).content, exists |-> TRUE, readable |-> FALSE] }

\* the timestamps of entries left by an earlier run: at the TTL boundary,
\* inside it, and ahead of the clock
InitTimestamps == {0 - DefaultCacheMinutes, 1 - DefaultCacheMinutes, 1}

InitFiles ==
    {NoFile} \cup MalformedFiles \cup { ValidFile(t) : t \in InitTimestamps }

\* CheapAMD.__init__
InitObject ==
    /\ provider = NoProvider
    /\ cache_minutes = DefaultCacheMinutes

InitIdle ==
    /\ ret = Ret(FALSE, <<>>)
    /\ netCalls = 0
    /\ last = Last("init", FALSE, FALSE, FALSE, "none", FALSE, TRUE)
    /\ call = NoCall
    /\ pc = [p \in Procs |-> "idle"]
    /\ loc = [p \in Procs |-> NoLoc]
    /\ cheapest = <<>>

Init ==
    /\ InitObject
    /\ cacheFile \in InitFiles
    /\ writable \in BOOLEAN
    /\ now = 0
    /\ InitIdle

\* time passes
Tick ==
    /\ now < MaxClock
    /\ now' = now + 1
    /\ last' = Last("tick", FALSE, FALSE, FALSE, "none", FALSE, TRUE)
    /\ UNCHANGED <<provider, cache_minutes, cacheFile, writable, ret, netCalls, call, pc, loc, cheapest>>

\* a call of load_config
LoadConfig ==
    \E env \in Envs :
        \E c \in {load_config(provider, cache_minutes, env)} :
        /\ provider' = c.provider
        /\ cache_minutes' = c.cache_minutes
        /\ last' = Last("load_config", FALSE, FALSE, FALSE, "none", FALSE, c.ok)
        /\ UNCHANGED <<cacheFile, writable, now, ret, netCalls, call, pc, loc, cheapest>>

\* a call of get_all_gpus
GetAllGpus ==
    \E use_cache \in BOOLEAN, demo_mode \in BOOLEAN, resp \in Responses :
        \E o \in {get_all_gpus(provider, cache_minutes, cacheFile, writable, now,
                                use_cache, demo_mode, resp)} :
        /\ provider' = o.provider
        /\ cacheFile' = o.file
        /\ ret' = Ret(o.raised, o.gpus)
        /\ netCalls' = o.net
        /\ last' = Last("get_all_gpus", use_cache, demo_mode, o.hit, o.fetch,
                        o.wrote, TRUE)
        /\ UNCHANGED <<cache_minutes, writable, now, call, pc, loc, cheapest>>

\* def get_all_gpus(self, use_cache: bool = True, demo_mode: bool = False):
\* the keywords a call may pass
get_all_gpus_keywords == {"use_cache", "demo_mode"}

\* a call binds its keywords to the parameters of the signature; a keyword
\* the signature does not name raises TypeError before the body runs
binds(keywords) == keywords \subseteq get_all_gpus_keywords

\* a call get_all_gpus(use_cache=..., type_filter=...): the body never runs,
\* so nothing is read, fetched or written
GetAllGpusTypeFilter ==
    \E use_cache \in BOOLEAN, type_filter \in {"GPU", "CPU"} :
        /\ ~binds({"use_cache", "type_filter"})
        /\ ret' = Ret(TRUE, <<>>)
        /\ netCalls' = 0
        /\ last' = Last("get_all_gpus(type_filter)", use_cache, FALSE, FALSE,
                        "none", FALSE, FALSE)
        /\ UNCHANGED <<provider, cache_minutes, cacheFile, writable, now, call, pc, loc, cheapest>>

Next == Tick \/ LoadConfig \/ GetAllGpus \/ GetAllGpusTypeFilter

Spec == Init /\ [][Next]_vars

(***************************************************************************)
(* What a cache file holds, read off its content token by token.           *)
(***************************************************************************)
\* the file is a readable, complete entry {timestamp, gpus}
HoldsEntry(file) ==
    /\ file.exists
    /\ file.readable
    /\ Len(file.content) >= 4
    /\ file.content[1] = T_Open
    /\ file.content[2].tok = "timestamp"
    /\ file.content[2].ts.iso
    /\ file.content[3] = T_Gpus
    /\ file.content[Len(file.content)] = T_Close
    /\ \A i \in 4..(Len(file.content) - 1) : file.content[i].tok = "rec"

EntryTimestamp(file) == file.content[2].ts.t

EntryGpus(file) == [i \in 1..(Len(file.content) - 4) |-> file.content[i + 3].rec]

\* self.provider is a provider with a non-empty key
Configured == provider.set /\ provider.api_key \notin {None, ""}

\* the step is a call get_all_gpus(use_cache=True, demo_mode=False)
CachedQueryStep ==
    /\ last'.op = "get_all_gpus"
    /\ last'.use_cache
    /\ ~last'.demo_mode

(***************************************************************************)
(* C1: a call get_all_gpus(use_cache=True) on a configured provider, with  *)
(* a cache entry younger than the TTL, returns exactly the records of the  *)
(* entry and issues no request to the provider.                            *)
(***************************************************************************)
C1_FreshCacheServed ==
    [][ ( /\ CachedQueryStep
          /\ Configured
          /\ HoldsEntry(cacheFile)
          /\ now - EntryTimestamp(cacheFile) < cache_minutes )
        => ( /\ ret' = Ret(FALSE, EntryGpus(cacheFile))
             /\ netCalls' = 0
             /\ cacheFile' = cacheFile ) ]_vars

C1_Witness ==
    /\ last.op = "get_all_gpus"
    /\ last.use_cache
    /\ ~last.demo_mode
    /\ last.hit
    /\ Configured
    /\ HoldsEntry(cacheFile)
    /\ now - EntryTimestamp(cacheFile) = cache_minutes - 1
    /\ ret = Ret(FALSE, EntryGpus(cacheFile))
    /\ netCalls = 0

(***************************************************************************)
(* C2: when the provider fetch of get_all_gpus yields zero records, the    *)
(* call returns an empty sequence and the cache file is left as it was: an *)
(* existing entry keeps timestamp and records, no file is created.         *)
(***************************************************************************)
C2_EmptyFetchLeavesCache ==
    [][ (last'.op = "get_all_gpus" /\ last'.fetch = "empty")
        => (ret' = Ret(FALSE, <<>>) /\ cacheFile' = cacheFile) ]_vars

C2_Witness ==
    /\ last.op = "get_all_gpus"
    /\ last.fetch = "empty"
    /\ netCalls = 1
    /\ writable
    /\ ret = Ret(FALSE, <<>>)
    /\ HoldsEntry(cacheFile)
    /\ now - EntryTimestamp(cacheFile) >= cache_minutes

(***************************************************************************)
(* C3: a provider whose api_key is None or "" is not configured, and every *)
(* non-demo query against it (_make_graphql_query,                         *)
(* get_available_gpus_api, get_all_gpus) comes back empty with no request  *)
(* issued.                                                                 *)
(***************************************************************************)
C3_NoKeyNoRequest ==
    /\ \A k \in {None, ""} :
          /\ ~is_configured(k)
          /\ \A resp \in Responses :
                /\ make_graphql_query(k, resp) = QueryResult(0, "None")
                /\ get_available_gpus_api(k, resp) = ApiResult(FALSE, 0, <<>>)
    /\ ( /\ last.op = "get_all_gpus"
         /\ ~last.demo_mode
         /\ (~provider.set \/ provider.api_key \in {None, ""}) )
       => (ret = Ret(FALSE, <<>>) /\ netCalls = 0 /\ last.fetch = "none")

C3_Witness ==
    /\ last.op = "get_all_gpus"
    /\ ~last.demo_mode
    /\ provider = RunpodProvider("")
    /\ HoldsEntry(cacheFile)
    /\ ret = Ret(FALSE, <<>>)
    /\ netCalls = 0

(***************************************************************************)
(* C4: whatever the provider answers and whatever state the cache file is  *)
(* in, get_all_gpus returns a sequence of records and never raises.        *)
(***************************************************************************)
C4_NeverRaises == last.op = "get_all_gpus" => ~ret.raised

(***************************************************************************)
(* C6: the cache entry is fresh exactly when now - timestamp is strictly   *)
(* below cache_minutes; an entry as old as the TTL is stale and the        *)
(* provider is asked.                                                      *)
(***************************************************************************)
C6_FreshIffYoungerThanTtl ==
    [][ (CachedQueryStep /\ Configured /\ HoldsEntry(cacheFile))
        => ( /\ last'.hit <=> (now - EntryTimestamp(cacheFile) < cache_minutes)
             /\ ~last'.hit => (netCalls' = 1 /\ last'.fetch # "none") ) ]_vars

C6_Witness ==
    /\ last.op = "get_all_gpus"
    /\ last.use_cache
    /\ ~last.demo_mode
    /\ Configured
    /\ HoldsEntry(cacheFile)
    /\ cache_minutes > 0
    /\ now - EntryTimestamp(cacheFile) = cache_minutes
    /\ ~last.hit
    /\ last.fetch = "empty"
    /\ netCalls = 1

(***************************************************************************)
(* C7: a cache file that is unreadable, no JSON, without 'timestamp' or    *)
(* 'gpus', or with a timestamp that does not parse, makes get_all_gpus     *)
(* behave as with no cache file: nothing is raised by the cache check and  *)
(* the provider is asked.                                                  *)
(***************************************************************************)
C7_MalformedCacheIsNoCache ==
    (cacheFile.exists /\ ~HoldsEntry(cacheFile))
    => \A use_cache \in BOOLEAN, demo_mode \in BOOLEAN, resp \in Responses :
         \A a \in {get_all_gpus(provider, cache_minutes, cacheFile, writable, now,
                                use_cache, demo_mode, resp)} :
         \A b \in {get_all_gpus(provider, cache_minutes, NoFile, writable, now,
                                use_cache, demo_mode, resp)} :
            /\ a.raised = b.raised
            /\ a.gpus = b.gpus
            /\ a.net = b.net
            /\ ~a.hit
            /\ a.fetch = b.fetch
            /\ a.wrote = b.wrote
            /\ a.provider = b.provider
            /\ a.file = IF a.wrote THEN b.file ELSE cacheFile
            /\ (Configured /\ ~demo_mode) => (a.net = 1 /\ a.fetch # "none")

C7_Witness ==
    /\ last.op = "get_all_gpus"
    /\ last.use_cache
    /\ ~last.demo_mode
    /\ Configured
    /\ cacheFile.exists
    /\ ~HoldsEntry(cacheFile)
    /\ cacheFile.content # <<>>
    /\ cacheFile.readable
    /\ ~ret.raised
    /\ netCalls = 1

(***************************************************************************)
(* C9: after get_all_gpus fetched a non-empty sequence R and wrote it at   *)
(* time t, the next call get_all_gpus(use_cache=True), with nothing in     *)
(* between, returns R unchanged and in the same order, from an entry whose *)
(* timestamp is t.                                                         *)
(***************************************************************************)
\* the last call fetched ret.gpus and wrote it to the cache file
JustWrote ==
    /\ last.op = "get_all_gpus"
    /\ last.wrote
    /\ ~ret.raised
    /\ ret.gpus # <<>>

RoundTrip ==
    /\ ret' = ret
    /\ last'.hit
    /\ netCalls' = 0
    /\ cacheFile' = cacheFile
    /\ HoldsEntry(cacheFile)
    /\ EntryTimestamp(cacheFile) = now
    /\ EntryGpus(cacheFile) = ret.gpus

\* as stated
C9_RoundTrip ==
    [][ (JustWrote /\ CachedQueryStep) => RoundTrip ]_vars

\* as amended: for a TTL of at least one minute
C9_RoundTripPositiveTtl ==
    [][ (JustWrote /\ CachedQueryStep /\ cache_minutes >= 1) => RoundTrip ]_vars

C9_Witness ==
    /\ last.op = "get_all_gpus"
    /\ last.use_cache
    /\ last.hit
    /\ now = 2
    /\ HoldsEntry(cacheFile)
    /\ EntryTimestamp(cacheFile) = now
    /\ ret = Ret(FALSE, ApiRecords(256, "MI300X-256"))
    /\ EntryGpus(cacheFile) = ret.gpus

(***************************************************************************)
(* The provider's methods called directly, on every key and every answer   *)
(* of the provider, a failed status with any body included.                *)
(***************************************************************************)
FailureStatuses == {401, 500}

ApiResponses ==
    Responses
    \cup { Response("http", st, sh, <<>>) : st \in FailureStatuses, sh \in BodyShapes }
    \cup { Response("http", st, "gpuTypes_list", g) :
              st \in FailureStatuses, g \in GpuTypesLists }

InitApi ==
    /\ InitObject
    /\ cacheFile = NoFile
    /\ writable = TRUE
    /\ now = 0
    /\ InitIdle

\* provider.get_available_gpus_api()
ApiCall ==
    \E k \in ApiKeys, resp \in ApiResponses :
        \E a \in {get_available_gpus_api(k, resp)} :
            /\ call' = Call(k, resp)
            /\ ret' = Ret(a.raised, a.gpus)
            /\ netCalls' = a.net
            /\ last' = Last("get_available_gpus_api", FALSE, FALSE, FALSE,
                            IF a.raised THEN "raised"
                            ELSE IF a.gpus = <<>> THEN "empty" ELSE "records",
                            FALSE, TRUE)
            /\ UNCHANGED <<provider, cache_minutes, cacheFile, writable, now, pc, loc, cheapest>>

\* provider._make_graphql_query(query): last.fetch holds what it returned
QueryCall ==
    \E k \in ApiKeys, resp \in ApiResponses :
        \E q \in {make_graphql_query(k, resp)} :
            /\ call' = Call(k, resp)
            /\ ret' = Ret(FALSE, <<>>)
            /\ netCalls' = q.net
            /\ last' = Last("_make_graphql_query", FALSE, FALSE, FALSE, q.data,
                            FALSE, TRUE)
            /\ UNCHANGED <<provider, cache_minutes, cacheFile, writable, now, pc, loc, cheapest>>

\* provider.get_demo_gpus()
DemoCall ==
    \E k \in ApiKeys :
        /\ call' = Call(k, NoCall.resp)
        /\ ret' = Ret(FALSE, get_demo_gpus)
        /\ netCalls' = 0
        /\ last' = Last("get_demo_gpus", FALSE, TRUE, FALSE, "none", FALSE, TRUE)
        /\ UNCHANGED <<provider, cache_minutes, cacheFile, writable, now, pc, loc, cheapest>>

NextApi == ApiCall \/ QueryCall \/ DemoCall

SpecApi == InitApi /\ [][NextApi]_vars

(***************************************************************************)
(* C8: a request that ends in a status other than 200, in a 200 answer     *)
(* with an 'errors' member, in a timeout or in any network or parse        *)
(* exception makes get_available_gpus_api return an empty list; nothing is *)
(* raised.                                                                 *)
(***************************************************************************)
FailedRequest(resp) ==
    \/ resp.kind \in {"timeout", "conn_error"}
    \/ resp.status # 200
    \/ resp.shape \in {"errors", "not_json"}

C8_FailedRequestYieldsEmpty ==
    /\ (last.op = "get_available_gpus_api" /\ FailedRequest(call.resp))
       => (ret = Ret(FALSE, <<>>) /\ last.fetch = "empty")
    /\ (last.op = "_make_graphql_query" /\ FailedRequest(call.resp))
       => last.fetch = "None"

C8_Witness ==
    /\ last.op = "get_available_gpus_api"
    /\ call.api_key = "rp_key"
    /\ call.resp = Response("http", 500, "gpuTypes_list", <<E_MI300X>>)
    /\ netCalls = 1
    /\ ret = Ret(FALSE, <<>>)

(***************************************************************************)
(* The commands of main() that print records: list, simple, csv, json,     *)
(* and those that price them: deploy, info.                                *)
(* Each invocation is a process of its own: CheapAMD() is constructed,     *)
(* load_config() reads env (skipped with --demo), get_all_gpus() runs with *)
(* use_cache=True, and the records are handed to output.                   *)
(*   raised : the command ended in an uncaught exception                   *)
(*   out    : the records handed to output, in output order                *)
(***************************************************************************)
CommandResult(raised, out, o) ==
    [net |-> o.net, raised |-> raised, hit |-> o.hit, file |-> o.file,
     fetch |-> o.fetch, wrote |-> o.wrote, out |-> out]

\* if not demo_mode and not self.load_config(): return
\* gpus = self.get_all_gpus(demo_mode=demo_mode)
command_query(file, wr, clock, demo_mode, env, resp) ==
    IF demo_mode
    THEN get_all_gpus(NoProvider, DefaultCacheMinutes, file, wr, clock,
                      TRUE, TRUE, resp)
    ELSE CHOOSE o \in
           { IF ~cfg.ok
             THEN Outcome(FALSE, <<>>, 0, FALSE, "none", FALSE, cfg.provider, file)
             ELSE get_all_gpus(cfg.provider, cfg.cache_minutes, file, wr, clock,
                               TRUE, FALSE, resp) :
             cfg \in {load_config(NoProvider, DefaultCacheMinutes, env)} } : TRUE

\* gpus.sort(key=...) before the records are handed on
Sorted(o) ==
    CommandResult(o.raised, IF o.raised THEN <<>> ELSE sort_by_price(o.gpus), o)

\* the records handed on as get_all_gpus returned them
Unsorted(o) ==
    CommandResult(o.raised, IF o.raised THEN <<>> ELSE o.gpus, o)

\* CheapAMD.get_gpus_simple, printed record by record by main()
get_gpus_simple(file, wr, clock, demo_mode, env, resp) ==
    Sorted(command_query(file, wr, clock, demo_mode, env, resp))

\* CheapAMD.get_gpus_string: one csv line per record
get_gpus_string(file, wr, clock, demo_mode, env, resp) ==
    Sorted(command_query(file, wr, clock, demo_mode, env, resp))

\* CheapAMD.list_gpus: the sorted records, from which the table rows are taken
list_gpus(file, wr, clock, demo_mode, env, resp) ==
    Sorted(command_query(file, wr, clock, demo_mode, env, resp))

\* main(), command 'json': print(json.dumps(gpus, indent=2))
main_json(file, wr, clock, demo_mode, env, resp) ==
    Unsorted(command_query(file, wr, clock, demo_mode, env, resp))

(***************************************************************************)
(* The choice of the cheapest record.                                      *)
(***************************************************************************)
\* variant: the filter keeps the records that are not available
is_available_inverted(g) == ~g.available

\* g.get('available', True)
is_available(g) == g.available

\* [g for g in gpus if g.get('available', True)]
available_gpus(gpus) == SelectSeq(gpus, is_available)

\* min(gpus, key=lambda x: x['price_per_gpu_hour']) of a non-empty list: the
\* first record of the lowest price
min_by_price(gpus) ==
    gpus[CHOOSE i \in 1..Len(gpus) :
           /\ \A j \in 1..Len(gpus) :
                 gpus[i].price_per_gpu_hour <= gpus[j].price_per_gpu_hour
           /\ \A j \in 1..(i - 1) :
                 gpus[j].price_per_gpu_hour > gpus[i].price_per_gpu_hour]

\* str.upper, for the model names given on the command line
upper(name) ==
    CASE name = "mi300x" -> "MI300X"
      [] name = "h100" -> "H100"
      [] OTHER -> name

\* list_gpus: cheapest_price and the quick-deploy hint are taken from
\* available_gpus[0] of the sorted records, inside 'if available_gpus:'
list_cheapest(sorted) ==
    LET available == available_gpus(sorted)
    IN  IF available = <<>> THEN <<>> ELSE <<available[1]>>

\* deploy: matching_gpus by model and availability, then by instance type when
\* one is given (None or '' is falsy), then min by price
deploy_cheapest(gpus, model, instance_type) ==
    LET matching_gpus ==
            SelectSeq(gpus, LAMBDA g : g.gpu_model = model /\ is_available(g))
        of_type ==
            IF instance_type \in {None, ""}
            THEN matching_gpus
            ELSE SelectSeq(matching_gpus, LAMBDA g : g.instance_type = instance_type)
    IN  IF of_type = <<>> THEN <<>> ELSE <<min_by_price(of_type)>>

\* show_info: model_gpus, of these the available ones, then min by price
info_cheapest(gpus, model) ==
    LET model_gpus == SelectSeq(gpus, LAMBDA g : g.gpu_model = model)
        available == available_gpus(model_gpus)
    IN  IF available = <<>> THEN <<>> ELSE <<min_by_price(available)>>

\* the Outcome of a command that returned before get_all_gpus was called
NoQuery(file) == Outcome(FALSE, <<>>, 0, FALSE, "none", FALSE, NoProvider, file)

\* CheapAMD.deploy up to its call of get_all_gpus(demo_mode=False)
deploy_query(file, wr, clock, env, resp, model) ==
    IF ~load_config(NoProvider, DefaultCacheMinutes, env).ok THEN NoQuery(file)
    ELSE IF upper(model) # "MI300X" THEN NoQuery(file)
    ELSE command_query(file, wr, clock, FALSE, env, resp)

\* CheapAMD.show_info up to the records it prices: get_all_gpus(demo_mode=False)
\* and, when that gave nothing, get_all_gpus(demo_mode=True)
info_query(file, wr, clock, env, resp, model) ==
    IF upper(model) \notin AMDGPUInfo_GPUS THEN NoQuery(file)
    ELSE IF ~load_config(NoProvider, DefaultCacheMinutes, env).ok THEN NoQuery(file)
    ELSE CHOOSE r \in
           { IF o.raised \/ o.gpus # <<>> THEN o
             ELSE LET d == get_all_gpus(
                               o.provider,
                               load_config(NoProvider, DefaultCacheMinutes,
                                           env).cache_minutes,
                               o.file, wr, clock, TRUE, TRUE, resp)
                  IN  Outcome(d.raised, d.gpus, o.net + d.net, o.hit, o.fetch,
                              o.wrote \/ d.wrote, d.provider, d.file) :
             o \in {command_query(file, wr, clock, FALSE, env, resp)} } : TRUE

\* the effect of one invocation that ended with result r and chose the records
\* of choice as cheapest; the object is gone with the process, the next
\* invocation constructs its own
Concluded(cmd, demo_mode, r, choice) ==
    /\ cacheFile' = r.file
    /\ ret' = Ret(r.raised, r.out)
    /\ netCalls' = r.net
    /\ last' = Last(cmd, TRUE, demo_mode, r.hit, r.fetch, r.wrote, TRUE)
    /\ cheapest' = choice
    /\ UNCHANGED <<provider, cache_minutes, writable, now, call, pc, loc>>

\* an invocation that chooses no record
Invocation(cmd, demo_mode, r) == Concluded(cmd, demo_mode, r, <<>>)

\* what an invocation depends on: '--demo' on the command line, or else the
\* environment load_config reads and the provider's answer (with --demo neither
\* is read)
CommandEnvs ==
    { Env(FALSE, None, Absent), Env(TRUE, None, Absent), Env(TRUE, "", Absent) }
    \cup { Env(TRUE, "rp_key", m) : m \in MinuteStrings }

CommandInputs ==
    { [resp |-> NoCall.resp, demo_mode |-> TRUE, env |-> Env(FALSE, None, Absent)] }
    \cup { [resp |-> r, demo_mode |-> FALSE, env |-> e] :
              e \in CommandEnvs, r \in Responses }

CmdList ==
    \E i \in CommandInputs :
        \E r \in {list_gpus(cacheFile, writable, now, i.demo_mode, i.env, i.resp)} :
            Concluded("list", i.demo_mode, r, list_cheapest(r.out))

CmdSimple ==
    \E i \in CommandInputs :
        \E r \in {get_gpus_simple(cacheFile, writable, now, i.demo_mode, i.env, i.resp)} :
            Invocation("simple", i.demo_mode, r)

CmdCsv ==
    \E i \in CommandInputs :
        \E r \in {get_gpus_string(cacheFile, writable, now, i.demo_mode, i.env, i.resp)} :
            Invocation("csv", i.demo_mode, r)

CmdJson ==
    \E i \in CommandInputs :
        \E r \in {main_json(cacheFile, writable, now, i.demo_mode, i.env, i.resp)} :
            Invocation("json", i.demo_mode, r)

\* camd deploy <model> [--type <instance_type>]
DeployModels == {"mi300x", "h100"}
InstanceTypes == {None, "MI300X-4x", "MI300X-16x"}

\* the provider answers deploy and info are run against: a failed request, an
\* answer without the MI300X, one the normalization raises on, and two with it
PricingResponses ==
    { Response("timeout", 0, "not_json", <<>>),
      Response("http", HttpOk, "gpuTypes_null", <<>>),
      Response("http", HttpOk, "gpuTypes_list", <<E_H100>>),
      Response("http", HttpOk, "gpuTypes_list", <<E_MI300X>>),
      Response("http", HttpOk, "gpuTypes_list", <<E_H100, E_ByName>>) }

PricingInputs ==
    { i \in CommandInputs : ~i.demo_mode /\ i.resp \in PricingResponses }

CmdDeploy ==
    \E i \in PricingInputs, model \in DeployModels :
        \E o \in {deploy_query(cacheFile, writable, now, i.env, i.resp, model)} :
            \E instance_type \in InstanceTypes :
                Concluded("deploy", FALSE, Unsorted(o),
                          IF o.raised THEN <<>>
                          ELSE deploy_cheapest(o.gpus, upper(model), instance_type))

\* camd info <model>: last.demo_mode tells that the demo records were priced
CmdInfo ==
    \E i \in PricingInputs, model \in DeployModels :
        \E o \in {info_query(cacheFile, writable, now, i.env, i.resp, model)} :
            Concluded("info", o.gpus # <<>> /\ o.gpus[1].demo_data, Unsorted(o),
                      IF o.raised THEN <<>>
                      ELSE info_cheapest(o.gpus, upper(model)))

\* time passes between invocations
CmdTick ==
    /\ now < MaxClock
    /\ now' = now + 1
    /\ UNCHANGED <<provider, cache_minutes, cacheFile, writable, ret, netCalls,
                   last, call, pc, loc, cheapest>>

NextCmd ==
    CmdList \/ CmdSimple \/ CmdCsv \/ CmdJson \/ CmdDeploy \/ CmdInfo \/ CmdTick

SpecCmd == Init /\ [][NextCmd]_vars

(***************************************************************************)
(* C10: the record sequence handed to output by list, simple, csv and json *)
(* is in ascending order of price_per_gpu_hour, wherever the records came  *)
(* from (cache, provider, demo data).                                      *)
(***************************************************************************)
Ascending(gpus) ==
    \A i \in 1..(Len(gpus) - 1) :
        gpus[i].price_per_gpu_hour <= gpus[i + 1].price_per_gpu_hour

C10_OutputAscending ==
    last.op \in {"list", "simple", "csv", "json"} => Ascending(ret.gpus)

(***************************************************************************)
(* Two invocations of the CLI, each running get_all_gpus(use_cache=True)   *)
(* with a configured provider against the same cache file.  The steps of   *)
(* one invocation, in the order of the code:                               *)
(*   check : open(cache_file, 'r'), json.load, the freshness test          *)
(*   fetch : provider.get_available_gpus_api(), cache_data is built        *)
(*   open  : open(cache_file, 'w') creates or truncates the file           *)
(*   dump  : json.dump and the close that flushes the buffered text to the *)
(*           file, from the start of the file                              *)
(* Nothing in the code locks the file or writes it under another name.     *)
(***************************************************************************)
\* what a reader finds in the file
Observe(file) ==
    IF ~file.exists THEN "absent"
    ELSE IF HoldsEntry(file) THEN "entry"
    ELSE "partial"

\* data written from offset 0 over the old content
Overlay(data, old) == data \o SubSeq(old, Len(data) + 1, Len(old))

InitConc ==
    /\ provider = RunpodProvider("rp_key")
    /\ cache_minutes = DefaultCacheMinutes
    /\ cacheFile \in {NoFile} \cup { ValidFile(t) : t \in InitTimestamps }
    /\ writable = TRUE
    /\ now = 0
    /\ InitIdle

ConcFrame ==
    UNCHANGED <<provider, cache_minutes, writable, now, ret, netCalls, last, call,
                cheapest>>

\* the cache check; a fresh entry ends the call
ConcCheck(p) ==
    /\ pc[p] = "idle"
    /\ \E c \in {read_cache(cacheFile, now, cache_minutes)} :
          /\ pc' = [pc EXCEPT ![p] = IF c.hit THEN "done" ELSE "fetch"]
          /\ loc' = [loc EXCEPT ![p] = Loc(Observe(cacheFile), 0, c.gpus)]
    /\ UNCHANGED cacheFile
    /\ ConcFrame

\* the provider fetch; cache_data takes its timestamp here
ConcFetch(p) ==
    /\ pc[p] = "fetch"
    /\ \E resp \in Responses :
          \E api \in {get_available_gpus_api(provider.api_key, resp)} :
             /\ pc' = [pc EXCEPT ![p] =
                          IF ~api.raised /\ should_cache(api.gpus) THEN "open" ELSE "done"]
             /\ loc' = [loc EXCEPT ![p] = Loc(loc[p].observed, now, api.gpus)]
    /\ UNCHANGED cacheFile
    /\ ConcFrame

\* open(self.cache_file, 'w')
ConcOpen(p) ==
    /\ pc[p] = "open"
    /\ cacheFile' = [content |-> <<>>, exists |-> TRUE, readable |-> TRUE]
    /\ pc' = [pc EXCEPT ![p] = "dump"]
    /\ UNCHANGED loc
    /\ ConcFrame

\* json.dump(cache_data, f) and the close of the with block
ConcDump(p) ==
    /\ pc[p] = "dump"
    /\ cacheFile' = [content |-> Overlay(json_dump(isoformat(loc[p].ts), loc[p].gpus),
                                         cacheFile.content), exists |-> TRUE,
                     readable |-> TRUE]
    /\ pc' = [pc EXCEPT ![p] = "done"]
    /\ UNCHANGED loc
    /\ ConcFrame

\* the process ends; a later invocation starts afresh
ConcExit(p) ==
    /\ pc[p] = "done"
    /\ pc' = [pc EXCEPT ![p] = "idle"]
    /\ loc' = [loc EXCEPT ![p] = NoLoc]
    /\ UNCHANGED cacheFile
    /\ ConcFrame

ConcTick ==
    /\ now < MaxClock
    /\ now' = now + 1
    /\ UNCHANGED <<provider, cache_minutes, cacheFile, writable, ret, netCalls,
                   last, call, pc, loc, cheapest>>

NextConc ==
    \/ \E p \in Procs : ConcCheck(p)
    \/ \E p \in Procs : ConcFetch(p)
    \/ \E p \in Procs : ConcOpen(p)
    \/ \E p \in Procs : ConcDump(p)
    \/ \E p \in Procs : ConcExit(p)
    \/ ConcTick

SpecConc == InitConc /\ [][NextConc]_vars

(***************************************************************************)
(* C5: with two invocations running get_all_gpus against the same cache    *)
(* file, every state of the file a process observes, and the state left    *)
(* when both are finished, is a complete entry {timestamp, gpus} (or no    *)
(* file at all); partly written content is never seen.                     *)
(***************************************************************************)
C5_CacheWriteAtomic ==
    /\ \A p \in Procs : loc[p].observed # "partial"
    /\ (\A p \in Procs : pc[p] \in {"idle", "done"})
       => Observe(cacheFile) # "partial"

(***************************************************************************)
(* C11: for every count N of 2, 4, 8 get_available_gpus_api returns one    *)
(* record with gpu_count N, and that record has price_per_hour = N times   *)
(* the price of the single-unit record, price_per_gpu_hour = that price,   *)
(* vcpus = 24 N and memory = N times the memory of the single-unit record; *)
(* for the base price 2.49 the 4-GPU record costs 9.96 per hour and 2.49   *)
(* per GPU hour.                                                           *)
(***************************************************************************)
\* the positions of the records of ret.gpus with the given instance type
RecordsOfType(itype) == { i \in 1..Len(ret.gpus) : ret.gpus[i].instance_type = itype }

DerivedFrom(unit, r, N) ==
    /\ r.price_per_hour = unit.price_per_hour * N
    /\ r.price_per_gpu_hour = unit.price_per_hour
    /\ r.vcpus = 24 * N
    /\ r.memory = unit.memory * N

C11_MultiGpuDerivation ==
    (last.op = "get_available_gpus_api" /\ ret.gpus # <<>>)
    => /\ Cardinality(RecordsOfType("MI300X-1x")) = 1
       /\ \A u \in RecordsOfType("MI300X-1x") :
             /\ ret.gpus[u].gpu_count = 1
             /\ ret.gpus[u].price_per_hour = 2490
             /\ \A N \in {2, 4, 8} :
                   /\ Cardinality({ i \in 1..Len(ret.gpus) :
                                      ret.gpus[i].gpu_count = N }) = 1
                   /\ \A i \in 1..Len(ret.gpus) :
                         ret.gpus[i].gpu_count = N
                         => DerivedFrom(ret.gpus[u], ret.gpus[i], N)
       /\ \A i \in 1..Len(ret.gpus) :
             ret.gpus[i].gpu_count = 4
             => (ret.gpus[i].price_per_hour = 9960
                 /\ ret.gpus[i].price_per_gpu_hour = 2490)

C11_Witness ==
    /\ last.op = "get_available_gpus_api"
    /\ call.resp = Response("http", HttpOk, "gpuTypes_list", <<E_ByName, E_MI300X>>)
    /\ \E i \in 1..Len(ret.gpus) :
          /\ ret.gpus[i].gpu_count = 4
          /\ ret.gpus[i].memory = 1024
          /\ ret.gpus[i].vcpus = 96
          /\ ret.gpus[i].price_per_hour = 9960

(***************************************************************************)
(* C12: get_all_gpus(demo_mode=True) returns the records of get_demo_gpus, *)
(* issues no request and leaves the cache file as it is, whether or not a  *)
(* provider exists or is configured and whatever the cache file holds.     *)
(***************************************************************************)
C12_DemoModeFrame ==
    [][ (last'.op = "get_all_gpus" /\ last'.demo_mode)
        => ( /\ ret' = Ret(FALSE, get_demo_gpus)
             /\ Len(ret'.gpus) = 5
             /\ \A i \in 1..Len(ret'.gpus) : ret'.gpus[i].demo_data
             /\ netCalls' = 0
             /\ cacheFile' = cacheFile
             /\ ~last'.hit
             /\ ~last'.wrote
             /\ last'.fetch = "none" ) ]_vars

\* demo data served with no key, over a fresh cache entry of other records
C12_Witness ==
    /\ last.op = "get_all_gpus"
    /\ last.demo_mode
    /\ last.use_cache
    /\ provider = RunpodProvider(None)
    /\ HoldsEntry(cacheFile)
    /\ now - EntryTimestamp(cacheFile) < cache_minutes
    /\ EntryGpus(cacheFile) # get_demo_gpus
    /\ ret = Ret(FALSE, get_demo_gpus)
    /\ netCalls = 0

(***************************************************************************)
(* C13: records that are not available stay in the records a command gets  *)
(* from get_all_gpus, but the record list, deploy and info choose as       *)
(* cheapest (list's quick-deploy hint included) is an available record of  *)
(* that result, for list and info one of the lowest price per GPU hour     *)
(* among the available ones; when no record is available none is chosen.   *)
(***************************************************************************)
AvailableIn(gpus) == { i \in 1..Len(gpus) : gpus[i].available = TRUE }

C13_CheapestIsAvailable ==
    last.op \in {"list", "deploy", "info"}
    => /\ Len(cheapest) <= 1
       /\ \A k \in 1..Len(cheapest) :
             /\ cheapest[k].available = TRUE
             /\ \E i \in AvailableIn(ret.gpus) : ret.gpus[i] = cheapest[k]
       /\ AvailableIn(ret.gpus) = {} => cheapest = <<>>
       /\ (last.op \in {"list", "info"} /\ AvailableIn(ret.gpus) # {})
          => /\ Len(cheapest) = 1
             /\ \A i \in AvailableIn(ret.gpus) :
                   cheapest[1].price_per_gpu_hour <= ret.gpus[i].price_per_gpu_hour
       /\ (last.demo_mode /\ ~ret.raised)
          => /\ Len(ret.gpus) = Len(get_demo_gpus)
             /\ \A j \in 1..Len(get_demo_gpus) :
                   \E i \in 1..Len(ret.gpus) : ret.gpus[i] = get_demo_gpus[j]
             /\ \E i \in 1..Len(ret.gpus) : ret.gpus[i].available = FALSE

\* camd list --demo: four of the five records are not available, the spot
\* record is chosen
C13_Witness ==
    /\ last.op = "list"
    /\ last.demo_mode
    /\ Cardinality(AvailableIn(ret.gpus)) = 1
    /\ Len(ret.gpus) = 5
    /\ Len(cheapest) = 1
    /\ cheapest[1].instance_type = "MI300X-spot"
    /\ cheapest[1].available

(***************************************************************************)
(* C14: the records get_available_gpus_api returns carry a boolean field   *)
(* whose value tells the derived records (spot, 2x, 4x, 8x: scaled from    *)
(* the single-unit quote) from the observed one: one and the same field    *)
(* has one value on every derived record and the other on the observed.    *)
(***************************************************************************)
\* the boolean fields of a record
BooleanFields == {"available", "api_source", "demo_data"}

IsDerived(r) == r.instance_type \in {"MI300X-spot", "MI300X-2x", "MI300X-4x", "MI300X-8x"}

C14_DerivedFlag ==
    (last.op = "get_available_gpus_api" /\ ret.gpus # <<>>)
    => \E f \in BooleanFields :
          \A i, j \in 1..Len(ret.gpus) :
              (IsDerived(ret.gpus[i]) /\ ~IsDerived(ret.gpus[j]))
              => ret.gpus[i][f] # ret.gpus[j][f]

(***************************************************************************)
(* C15: the records get_available_gpus_api builds do not depend on the     *)
(* order of the gpuTypes list: a payload with the same entries in another  *)
(* order gives the same record sequence (where neither call raises).       *)
(***************************************************************************)
IsPermutation(a, b) ==
    /\ Len(a) = Len(b)
    /\ \E f \in [1..Len(a) -> 1..Len(a)] :
          /\ \A i, j \in 1..Len(a) : f[i] = f[j] => i = j
          /\ \A i \in 1..Len(a) : b[i] = a[f[i]]

C15_OrderIndependent ==
    (last.op = "get_available_gpus_api" /\ ~ret.raised)
    => \A g \in GpuTypesLists :
          IsPermutation(g, call.resp.gpuTypes)
          => \A other \in {get_available_gpus_api(call.api_key,
                  Response(call.resp.kind, call.resp.status, call.resp.shape, g))} :
                ~other.raised => other.gpus = ret.gpus

(***************************************************************************)
(* C16: a cache entry written at time t is what every                      *)
(* get_all_gpus(use_cache=True) call returns while now - t is below the    *)
(* TTL, whatever load_config made of the provider's credential since the   *)
(* entry was written.                                                      *)
(***************************************************************************)
C16_CacheSurvivesConfigChange ==
    [][ ( /\ CachedQueryStep
          /\ last.op = "load_config"
          /\ HoldsEntry(cacheFile)
          /\ now - EntryTimestamp(cacheFile) < cache_minutes )
        => ret' = Ret(FALSE, EntryGpus(cacheFile)) ]_vars

(***************************************************************************)
(* C17: every record get_available_gpus_api returns has a gpu_model that   *)
(* is a key of AMDGPUInfo.GPUS, and an answer whose gpuTypes list holds no *)
(* entry with the id 'AMD Instinct MI300X OAM' or with 'MI300X' in its     *)
(* displayName gives an empty result and raises nothing.                   *)
(***************************************************************************)
\* the entry is the MI300X by its id or by its displayName
NamesMI300X(e) ==
    /\ e.dict
    /\ \/ e.id = MI300X_ID
       \/ e.displayName \in {"MI300X", "AMD MI300X 256GB"}

C17_KnownModelOnly ==
    last.op = "get_available_gpus_api"
    => /\ \A i \in 1..Len(ret.gpus) : ret.gpus[i].gpu_model \in AMDGPUInfo_GPUS
       /\ ( /\ call.resp.shape = "gpuTypes_list"
            /\ \A i \in 1..Len(call.resp.gpuTypes) : ~NamesMI300X(call.resp.gpuTypes[i]) )
          => ret = Ret(FALSE, <<>>)

(***************************************************************************)
(* C18: every record of get_available_gpus_api and of get_demo_gpus has a  *)
(* price_per_hour of at least 0 and a price_per_gpu_hour equal to          *)
(* price_per_hour / max(gpu_count, 1).                                     *)
(***************************************************************************)
Max(a, b) == IF a >= b THEN a ELSE b

PriceConsistent(r) ==
    /\ r.price_per_hour >= 0
    /\ r.price_per_hour % Max(r.gpu_count, 1) = 0
    /\ r.price_per_gpu_hour = r.price_per_hour \div Max(r.gpu_count, 1)

C18_PriceInvariant ==
    last.op \in {"get_available_gpus_api", "get_demo_gpus"}
    => \A i \in 1..Len(ret.gpus) : PriceConsistent(ret.gpus[i])

C18_Witness ==
    /\ last.op = "get_demo_gpus"
    /\ Len(ret.gpus) = 5
    /\ \E i \in 1..Len(ret.gpus) :
          /\ ret.gpus[i].gpu_count = 8
          /\ ret.gpus[i].price_per_hour = 19920
          /\ ret.gpus[i].price_per_gpu_hour = 2490

(***************************************************************************)
(* C19: over sequential get_all_gpus calls the cache file holds the        *)
(* timestamp and the whole record sequence of the most recent fetch that   *)
(* gave records: such a fetch replaces the file by its own entry, and      *)
(* nothing else touches the file, so no entry mixes two fetches.           *)
(***************************************************************************)
\* the step is a get_all_gpus call whose provider fetch gave records
FetchedRecordsStep ==
    /\ last'.op = "get_all_gpus"
    /\ last'.fetch = "records"

\* the file after the step is the entry of this fetch and of nothing else
HoldsThisFetch ==
    /\ ~ret'.raised
    /\ ret'.gpus # <<>>
    /\ cacheFile' = [content |-> json_dump(isoformat(now), ret'.gpus),
                     exists |-> TRUE, readable |-> TRUE]
    /\ HoldsEntry(cacheFile')
    /\ EntryTimestamp(cacheFile') = now
    /\ EntryGpus(cacheFile') = ret'.gpus

PositionIn(seq, r) == CHOOSE i \in 1..Len(seq) : seq[i] = r

StableSortOf(out, in) ==
    /\ Len(out) = Len(in)
    /\ \A i \in 1..Len(in) : \E j \in 1..Len(out) : out[j] = in[i]
    /\ \A i, j \in 1..Len(out) : i # j => out[i] # out[j]
    /\ Ascending(out)
    /\ \A i, j \in 1..Len(in) :
          (i < j /\ in[i].price_per_gpu_hour = in[j].price_per_gpu_hour)
          => PositionIn(out, in[i]) < PositionIn(out, in[j])

SortCommands == {"list", "simple", "csv"}

C20_SortStableIdempotent ==
    [][ (last'.op \in SortCommands /\ ~ret'.raised /\ ret'.gpus # <<>>)
        => /\ ~last'.demo_mode => HoldsEntry(cacheFile')
           /\ StableSortOf(ret'.gpus, IF last'.demo_mode THEN get_demo_gpus
                                      ELSE EntryGpus(cacheFile'))
           /\ sort_by_price(ret'.gpus) = ret'.gpus
           /\ ( /\ last.op \in SortCommands
                /\ ~last.demo_mode
                /\ ~ret.raised
                /\ ret.gpus # <<>>
                /\ last'.hit )
              => ret'.gpus = ret.gpus ]_vars

\* camd csv served from the cache: the spot record first, then the four
\* records of equal price in the order of the cached sequence
C20_Witness ==
    /\ last.op = "csv"
    /\ last.hit
    /\ HoldsEntry(cacheFile)
    /\ EntryGpus(cacheFile)[1].instance_type = "MI300X-1x"
    /\ EntryGpus(cacheFile)[2].instance_type = "MI300X-spot"
    /\ Len(ret.gpus) = 5
    /\ ret.gpus[1].instance_type = "MI300X-spot"
    /\ ret.gpus[2].instance_type = "MI300X-1x"
    /\ ret.gpus[3].instance_type = "MI300X-2x"
    /\ ret.gpus[4].instance_type = "MI300X-4x"
    /\ ret.gpus[5].instance_type = "MI300X-8x"

(***************************************************************************)
(* C21.  The query entry point accepts an optional type_filter: a call     *)
(* that passes type_filter returns, without raising, only records whose    *)
(* hardware_type is the one asked for (for GPU: the GPU records of the     *)
(* price-sorted sequence, in their order).                                 *)
(***************************************************************************)
HasHardwareType(r, t) == "hardware_type" \in DOMAIN r /\ r.hardware_type = t

C21_TypeFilterAccepted ==
    last.op = "get_all_gpus(type_filter)" =>
        /\ ~ret.raised
        /\ \A i \in 1..Len(ret.gpus) : HasHardwareType(ret.gpus[i], "GPU")

(***************************************************************************)
(* C22.  Whatever commands run, with --demo or without, show_info's        *)
(* fallback to demo data included, the cache file never holds a demo       *)
(* record: every record in it is one get_available_gpus_api produces.      *)
(***************************************************************************)
\* the records written in a file, whether or not the file is a whole entry
FileRecords(file) ==
    { file.content[i].rec :
        i \in { j \in 1..Len(file.content) : file.content[j].tok = "rec" } }

\* every record some call of get_available_gpus_api returns
ApiProduced ==
    UNION { { api.gpus[i] : i \in 1..Len(api.gpus) } :
            api \in { get_available_gpus_api("rp_key", r) : r \in Responses } }

C22_NoDemoRecordCached ==
    \A r \in FileRecords(cacheFile) : ~r.demo_data /\ r \in ApiProduced

\* show_info fell back to the demo records while the cache file held an entry
C22_Witness ==
    /\ last.op = "info"
    /\ ret.gpus # <<>>
    /\ \A i \in 1..Len(ret.gpus) : ret.gpus[i].demo_data
    /\ HoldsEntry(cacheFile)
    /\ EntryGpus(cacheFile) # <<>>

(***************************************************************************)
(* C23.  Freshness is the bare comparison now - timestamp < TTL: a cache   *)
(* entry stamped ahead of the clock is fresh, whatever the TTL, and        *)
(* get_all_gpus(use_cache=True) returns it without a request to the        *)
(* provider; an entry that was stamped ahead of the clock stops being      *)
(* served once the clock has reached timestamp + TTL.                      *)
(***************************************************************************)
\* the timestamps of the entries that are ahead of the clock at the start
FutureStamps == { t \in InitTimestamps : t > 0 }

C23_FutureEntryFresh ==
    [][ (CachedQueryStep /\ Configured /\ HoldsEntry(cacheFile))
        => ( /\ EntryTimestamp(cacheFile) > now
                  => ( /\ last'.hit
                       /\ ret' = Ret(FALSE, EntryGpus(cacheFile))
                       /\ netCalls' = 0
                       /\ cacheFile' = cacheFile )
             /\ EntryTimestamp(cacheFile) \in FutureStamps
                  => ( last'.hit
                         <=> now < EntryTimestamp(cacheFile) + cache_minutes ) )
      ]_vars

\* an entry stamped ahead of the clock was served from the cache
C23_Witness ==
    /\ last.op = "get_all_gpus"
    /\ last.use_cache
    /\ ~last.demo_mode
    /\ last.hit
    /\ Configured
    /\ HoldsEntry(cacheFile)
    /\ EntryTimestamp(cacheFile) > now
    /\ ret = Ret(FALSE, EntryGpus(cacheFile))
    /\ netCalls = 0

(***************************************************************************)
(* C24.  load_config returns True exactly when RUNPOD_API_KEY is non-empty *)
(* in the process environment and CAMD_CACHE_MINUTES parses as an integer; *)
(* with a key and a CAMD_CACHE_MINUTES that is no integer it returns       *)
(* False, self.provider is a configured provider and cache_minutes keeps   *)
(* its previous value.  Stated of load_config applied to the object as it  *)
(* is, for every environment.                                              *)
(***************************************************************************)
KeyNonEmpty(env) == env.api_key \notin {None, ""}

\* CAMD_CACHE_MINUTES is unset (the default '5' is parsed) or an integer
MinutesParse(env) == env.minutes \in {Absent, "0", "1"}

\* the .env file is there and was read to its end
EnvLoaded(env) == env.exists /\ env.loads

\* the non-integer case of the claim
NonIntegerCase(env, c) ==
    (KeyNonEmpty(env) /\ ~MinutesParse(env))
        => ( /\ ~c.ok
             /\ c.provider = RunpodProvider(env.api_key)
             /\ is_configured(c.provider.api_key)
             /\ c.cache_minutes = cache_minutes )

\* the claim as it stands: whether or not the .env file was loaded
C24_LoadConfigReturn ==
    \A env \in Envs :
        LET c == load_config(provider, cache_minutes, env)
        IN  /\ c.ok <=> (KeyNonEmpty(env) /\ MinutesParse(env))
            /\ NonIntegerCase(env, c)

\* as amended: the biconditional for a .env file that exists and was read;
\* otherwise False is returned and the object is left as it was
C24_LoadConfigReturnWhenLoaded ==
    \A env \in Envs :
        LET c == load_config(provider, cache_minutes, env)
        IN  /\ EnvLoaded(env)
                 => ( /\ c.ok <=> (KeyNonEmpty(env) /\ MinutesParse(env))
                      /\ NonIntegerCase(env, c) )
            /\ ~EnvLoaded(env)
                 => ( /\ ~c.ok
                      /\ c.provider = provider
                      /\ c.cache_minutes = cache_minutes )

\* load_config returned False on an object it left with a configured provider
\* and with the cache_minutes an earlier call had set
C24_Witness ==
    /\ last.op = "load_config"
    /\ ~last.ok
    /\ Configured
    /\ cache_minutes = 1

====
